---- MODULE Spec2Model ----
(***************************************************************************)
(* Model of ppmac_plugin.py: the console controller PpmacCore, the         *)
(* extension entry points that register it, and its command handlers.      *)
(* A handler is one synchronous request sequence; the model keeps the      *)
(* controllers' fields and a record of the last invocation: the requests   *)
(* it issued (with the connection handle each went to), what it printed    *)
(* and how it ended.                                                       *)
(***************************************************************************)
EXTENDS Integers, Sequences, FiniteSets, TLC

\* ------------------------------------------------------------------ bounds
MaxCtrl == 2        \* controllers constructed in one session
MaxHandle == 2      \* PPComm connections opened in one session
MaxPolls == 2       \* iterations of a polling loop that are followed
MaxAddrs == 2       \* addresses given to gather

NoCtrl == 0         \* PpmacCore.instance is None
NoComm == 0         \* self.comm is None

VARIABLES
  core,      \* the fields of the controller the shell dispatches to
  exported,  \* that controller's identity (NoCtrl before the first load)
  nctrl,     \* number of controllers constructed so far
  instance,  \* the class attribute PpmacCore.instance
  nhandle,   \* number of connections opened so far
  inv,       \* the current or last invocation
  mon        \* the state of a running polling loop

vars == <<core, exported, nctrl, instance, nhandle, inv, mon>>

\* ------------------------------------------------------------- requests
\* A request on a connection handle: what is asked (op), the handle it is
\* issued on, the variable, command or file it names and the value sent.
Req(op, h, var, val) == [op |-> op, on |-> h, var |-> var, val |-> val]

NoVal == <<>>

\* The outcome of a handler body.
Returned(reqs, out) == [reqs |-> reqs, out |-> out, result |-> "returned", exc |-> "-"]
Raised(reqs, out, exc) == [reqs |-> reqs, out |-> out, result |-> "raised", exc |-> exc]

\* A handler that stays in a polling loop.
Running(reqs, out, m) ==
  [reqs |-> reqs, out |-> out, result |-> "running", exc |-> "-", mon |-> m]

\* No polling loop and no status read belongs to the last invocation.
NoMon == [on |-> FALSE, kind |-> "-", comm |-> 0, vars |-> <<>>, cbk |-> <<>>,
          raw |-> <<>>, praw |-> <<>>, prev |-> <<>>, last_values |-> <<>>, cb_last |-> <<>>,
          phase |-> <<>>, pphase |-> <<>>,
          printed |-> {}, polls |-> 0, how |-> "-"]

MonOf(o) == IF "mon" \in DOMAIN o THEN o.mon ELSE NoMon

Idle == [cmd |-> "-", self |-> NoCtrl, args |-> <<>>, checked |-> "notcalled",
         reqs |-> <<>>, out |-> <<>>, result |-> "returned", exc |-> "-",
         before |-> <<>>, ret |-> "None"]

\* ------------------------------------------------------------ controller
\* The completer attribute: never assigned ("unset", when use_completer_db is
\* false at construction), None, or a loaded completer and the connection
\* whose gpascii channel it holds.
Completer(st, chan) == [st |-> st, chan |-> chan]

\* open_completer_db: loaded says whether a completer came back; it is given
\* the gpascii channel of the current connection, or none.
open_completer_db(st, loaded) ==
  IF loaded THEN [st EXCEPT !.completer = Completer("loaded", st.comm)]
  ELSE st

\* The configured host, port, user and password (the traits' defaults).
DefaultConfig == [host |-> "10.0.0.98", port |-> 22, user |-> "root", password |-> "deltatau"]

\* What the connection in comm was opened with; nothing while comm is None.
NoPeer == [host |-> "-", port |-> 0, user |-> "-", password |-> "-"]

\* connect called with no argument: every parameter is None.
NoArgs == [host |-> <<>>, port |-> <<>>, user |-> <<>>, password |-> <<>>]

\* __init__: comm is None; the completer is opened only with use_completer_db.
NewCtrl(auto, usedb, loaded) ==
  LET st0 == [comm |-> NoComm, completer |-> Completer("unset", NoComm),
              auto_connect |-> auto, use_completer_db |-> usedb,
              cfg |-> DefaultConfig, peer |-> NoPeer]
  IN IF usedb
     THEN open_completer_db([st0 EXCEPT !.completer = Completer("None", NoComm)], loaded)
     ELSE st0

\* connect taking the configured value for an argument that is None or empty.
PPCommFalsy(cfg, a) ==
  [host |-> IF a.host = <<>> \/ a.host[1] = "" THEN cfg.host ELSE a.host[1],
   port |-> IF a.port = <<>> \/ a.port[1] = 0 THEN cfg.port ELSE a.port[1],
   user |-> IF a.user = <<>> \/ a.user[1] = "" THEN cfg.user ELSE a.user[1],
   password |-> IF a.password = <<>> \/ a.password[1] = "" THEN cfg.password
                ELSE a.password[1]]

\* connect, the parameters of the PPComm it opens: each argument, or the
\* configured value where the argument is None.
PPComm(cfg, a) == [k \in DOMAIN cfg |-> IF a[k] = <<>> THEN cfg[k] ELSE a[k][1]]

\* connect: a newly opened connection replaces comm; with use_completer_db the
\* completer is discarded and reopened.
connect(st, h, a, loaded) ==
  LET st1 == [st EXCEPT !.comm = h, !.peer = PPComm(st.cfg, a)]
  IN IF st.use_completer_db
     THEN open_completer_db([st1 EXCEPT !.completer = Completer("None", NoComm)], loaded)
     ELSE st1

\* check_comm connecting whether or not auto_connect is set.
check_commAlwaysConnects(st, nh) ==
  IF st.comm = NoComm
  THEN {[ok |-> TRUE, st |-> connect(st, nh + 1, NoArgs, loaded), nh |-> nh + 1] : loaded \in BOOLEAN}
  ELSE {[ok |-> TRUE, st |-> st, nh |-> nh]}

\* check_comm: the possible results on controller state st with nh connections
\* opened so far: whether it returned true, the state it leaves, the
\* connections opened.
check_comm(st, nh) ==
  IF st.comm = NoComm
  THEN IF st.auto_connect
       THEN {[ok |-> TRUE, st |-> connect(st, nh + 1, NoArgs, loaded), nh |-> nh + 1]
               : loaded \in BOOLEAN}
       ELSE {[ok |-> FALSE, st |-> st, nh |-> nh]}
  ELSE {[ok |-> TRUE, st |-> st, nh |-> nh]}

\* A handler may start when a controller's handlers are exported and no other
\* handler is running (each command is synchronous).
CanRun == exported # NoCtrl /\ inv.result # "running"

\* A connection can still be opened within the bound.
CanCheck == core.comm # NoComm \/ ~core.auto_connect \/ nhandle < MaxHandle

Record(cmd, args, checked, o) ==
  [cmd |-> cmd, self |-> exported, args |-> args, checked |-> checked,
   reqs |-> o.reqs, out |-> o.out, result |-> o.result, exc |-> o.exc,
   before |-> core, ret |-> "None"]

\* The common shape of a handler: check_comm, return when it fails, else the
\* body on self.comm. Body(h) is the set of outcomes the device's answers allow.
\* unchecked is how the handler ends when check_comm returns false.
HandlerOr(cmd, args, Body(_), unchecked) ==
  /\ CanRun
  /\ CanCheck
  /\ \E ck \in check_comm(core, nhandle) :
       /\ core' = ck.st
       /\ nhandle' = ck.nh
       /\ IF ck.ok
          THEN \E o \in Body(ck.st.comm) :
                 /\ inv' = Record(cmd, args, "true", o)
                 /\ mon' = MonOf(o)
          ELSE /\ inv' = Record(cmd, args, "false", unchecked)
               /\ mon' = NoMon
  /\ UNCHANGED <<exported, nctrl, instance>>

Handler(cmd, args, Body(_)) == HandlerOr(cmd, args, Body, Returned(<<>>, <<>>))

\* A handler that returns before check_comm is called.
Early(cmd, args, o) ==
  /\ CanRun
  /\ inv' = Record(cmd, args, "notcalled", o)
  /\ mon' = NoMon
  /\ UNCHANGED <<core, exported, nctrl, instance, nhandle>>

\* ------------------------------------------------- extension entry points
NoCore == NewCtrl(FALSE, FALSE, FALSE)

\* What an entry point finds: the registration and the controllers so far.
Registry == [instance |-> instance, nctrl |-> nctrl]

\* load_ipython_extension without its test of PpmacCore.instance.
AlreadyLoadedNever(inst) == FALSE

\* load_ipython_extension's test: PpmacCore.instance is not None.
AlreadyLoaded(inst) == inst # NoCtrl

\* load_ipython_extension: refuses while a controller is registered, and
\* returns None; otherwise constructs one (which registers itself), exports
\* its handlers, which replace those of an earlier controller, and returns it.
load_ipython_extension ==
  /\ inv.result # "running"
  /\ IF AlreadyLoaded(instance)
     THEN /\ inv' = [Idle EXCEPT !.cmd = "load", !.out = <<"PpmacCore already loaded">>,
                                 !.before = Registry]
          /\ UNCHANGED <<core, exported, nctrl, instance>>
     ELSE /\ nctrl < MaxCtrl
          /\ \E auto \in BOOLEAN, usedb \in BOOLEAN, loaded \in BOOLEAN :
               core' = NewCtrl(auto, usedb, loaded)
          /\ nctrl' = nctrl + 1
          /\ instance' = nctrl + 1
          /\ exported' = nctrl + 1
          /\ inv' = [Idle EXCEPT !.cmd = "load", !.self = nctrl + 1, !.before = Registry,
                                 !.ret = "instance"]
  /\ mon' = NoMon
  /\ UNCHANGED nhandle

\* unload_ipython_extension: clears the registration, if there is one, and
\* then returns True; the handlers stay exported.
unload_ipython_extension ==
  /\ inv.result # "running"
  /\ instance' = NoCtrl
  /\ inv' = [Idle EXCEPT !.cmd = "unload", !.before = Registry,
                         !.ret = IF instance # NoCtrl THEN "True" ELSE "None"]
  /\ mon' = NoMon
  /\ UNCHANGED <<core, exported, nctrl, nhandle>>

\* _connect: the connect command, with the arguments of its command line.
ConnectWith(a) ==
  /\ CanRun
  /\ nhandle < MaxHandle
  /\ \E loaded \in BOOLEAN : core' = connect(core, nhandle + 1, a, loaded)
  /\ nhandle' = nhandle + 1
  /\ inv' = Record("connect", a, "notcalled", Returned(<<>>, <<>>))
  /\ mon' = NoMon
  /\ UNCHANGED <<exported, nctrl, instance>>

\* The connect command with no argument.
Connect == ConnectWith(NoArgs)

\* The host and port traits are configurable: %config PpmacCore.host = ...
set_config(host, port) ==
  /\ CanRun
  /\ core' = [core EXCEPT !.cfg.host = host, !.cfg.port = port]
  /\ inv' = Record("config", [host |-> host, port |-> port], "notcalled",
                   Returned(<<>>, <<>>))
  /\ mon' = NoMon
  /\ UNCHANGED <<exported, nctrl, instance, nhandle>>

\* ------------------------------------------------------------------ values
\* Text is a sequence of tokens; an optional value is None or Some(x).
None == <<>>
Some(x) == <<x>>

\* '%d' % n, for the small numbers the model uses.
Fmt(n) == CASE n = 0 -> "0" [] n = 1 -> "1" [] n = 2 -> "2" [] n = 3 -> "3"
            [] OTHER -> "n"

Range(s) == {s[i] : i \in 1..Len(s)}

\* str.split(sep): the pieces of s between the occurrences of sep.
RECURSIVE Split(_, _)
Split(s, sep) ==
  IF sep \in Range(s)
  THEN LET i == CHOOSE i \in 1..Len(s) : s[i] = sep /\ \A j \in 1..(i - 1) : s[j] # sep
       IN <<SubSeq(s, 1, i - 1)>> \o Split(SubSeq(s, i + 1, Len(s)), sep)
  ELSE <<s>>

\* --------------------------------------------------------- simple handlers
VarNames == {<<"P1">>, <<"P2">>}

\* A run of requests in order, any of which the device may answer with an
\* error that the handler does not catch: the run ends there and the
\* exception leaves the handler.
Runs(reqs, out, exc) ==
  {Returned(reqs, out)} \cup {Raised(SubSeq(reqs, 1, k), <<>>, exc) : k \in 1..Len(reqs)}

\* gpascii (alias g): sends the line over the connection's gpascii channel and
\* prints what comes back until the timeout.
gpasciiBody(h, line) == {Returned(<<Req("send_line", h, line, NoVal)>>, <<"lines">>)}

gpascii(line) ==
  Handler("gpascii", [cmd |-> line], LAMBDA h : gpasciiBody(h, line))

\* get_var: one get; a GPError is printed.
get_varBody(h, var) ==
  {Returned(<<Req("get", h, var, NoVal)>>, <<out>>) : out \in {"value", "GPError"}}

get_var(var) ==
  Handler("get_var", [variable |-> var], LAMBDA h : get_varBody(h, var))

\* set_var: one set; a GPError is printed.
set_varBody(h, var, value) ==
  {Returned(<<Req("set", h, var, value)>>, <<out>>) : out \in {"value", "GPError"}}

set_var(var, value) ==
  Handler("set_var", [variable |-> var, value |-> value],
          LAMBDA h : set_varBody(h, var, value))

\* shell_cmd: an empty command returns before the connection is looked at.
shell_cmdBody(h, command) == {Returned(<<Req("shell", h, command, NoVal)>>, <<"lines">>)}

shell_cmd(command) ==
    IF command = <<>>
    THEN Early("shell_cmd", [command |-> command], Returned(<<>>, <<>>))
    ELSE Handler("shell_cmd", [command |-> command],
                 LAMBDA h : shell_cmdBody(h, command))

\* motors: ActPos of every motor in the range, then HomePos of every one.
motorsReqs(h, first, n) ==
  [i \in 1..n |-> Req("get", h, <<"Motor", Fmt(first + i - 1), "ActPos">>, NoVal)]
  \o [i \in 1..n |-> Req("get", h, <<"Motor", Fmt(first + i - 1), "HomePos">>, NoVal)]

motors(n) ==
    Handler("motors", [first_motor |-> 1, nmotors |-> n],
            LAMBDA h : Runs(motorsReqs(h, 1, n), <<"positions">>, "GPError"))

\* get_gather_results: the settings file is read; without gather.addr in it a
\* KeyError is raised, else the gathered data is read.
get_gather_results(h) ==
  {[reqs |-> <<Req("read_file", h, <<"settings">>, NoVal)>>, ok |-> FALSE],
   [reqs |-> <<Req("read_file", h, <<"settings">>, NoVal),
               Req("gather_results", h, <<"addresses">>, NoVal)>>, ok |-> TRUE]}

\* gather_save, tune_plot, gather_plot: the KeyError is logged and the
\* handler returns; else the data is saved, printed or plotted.
GatherResultsBody(h) ==
  {Returned(g.reqs, IF g.ok THEN <<"data">> ELSE <<"KeyError">>) : g \in get_gather_results(h)}

gather_save == Handler("gather_save", <<>>, GatherResultsBody)

tune_plot == Handler("tune_plot", <<>>, GatherResultsBody)

gather_plot == Handler("gather_plot", <<>>, GatherResultsBody)

\* gather_config: reads and prints the gather settings file.
gather_configBody(h) == {Returned(<<Req("read_file", h, <<"settings">>, NoVal)>>, <<"lines">>)}

gather_config == Handler("gather_config", <<>>, gather_configBody)

\* custom_tune: validates the connection itself; its callers pyramid and ramp
\* only parse their arguments before calling it.
custom_tuneBody(h, script) == {Returned(<<Req("custom_tune", h, script, NoVal)>>, <<"plot">>)}

pyramid ==
  Handler("pyramid", <<>>, LAMBDA h : custom_tuneBody(h, <<"pyramid.txt">>))

ramp ==
  Handler("ramp", <<>>, LAMBDA h : custom_tuneBody(h, <<"ramp.txt">>))

\* other_trajectory: dt_ramp, dt_trapezoid and dt_scurve run the device's
\* tuning program for their move type.
moveBody(h, move_type) ==
  {Returned(<<Req("run_tune_program", h, move_type, NoVal)>>, <<"plot">>)}

MoveTypes == {<<"dt_ramp">>, <<"dt_trapezoid">>, <<"dt_scurve">>}

other_trajectory(move_type) ==
    Handler(move_type[1], <<>>, LAMBDA h : moveBody(h, move_type))

\* set_verbose reading the variable before it writes it.
set_verboseGetFirst(h, var, value) == <<Req("get", h, var, NoVal), Req("set", h, var, value)>>

\* wpkey and enc_filter write through set_verbose: set, then get, the variable.
set_verbose(h, var, value) == <<Req("set", h, var, value), Req("get", h, var, NoVal)>>

wpkey(disable) ==
    Handler("wpkey", [disable |-> disable],
            LAMBDA h : Runs(set_verbose(h, <<"Sys.WpKey">>,
                                        IF disable THEN <<"0">> ELSE <<"$AAAAAAAA">>),
                            <<"Sys.WpKey">>, "GPError"))

\* prog_send: parses its arguments and validates the connection; the handler
\* ends there.
prog_sendBody(h) == {Returned(<<>>, <<>>)}

prog_send(run, gather_, nmotors) ==
    Handler("prog_send", [run |-> run, gather |-> gather_, motors |-> nmotors],
            prog_sendBody)

\* ----------------------------------------------- handlers using the completer
\* gather, servo and servo_copy read self.completer, which does not exist on
\* a controller constructed with use_completer_db false.
WithCompleter(st, outcomes) ==
  IF st.completer.st = "unset" THEN {Raised(<<>>, <<>>, "AttributeError")} ELSE outcomes

\* An address is its dot-separated parts; it ends with '.a' when the last of
\* two or more parts is 'a'.
endswith_a(addr) == Len(addr) >= 2 /\ addr[Len(addr)] = "a"

ServoCount == <<"Sys", "ServoCount", "a">>

\* str(self.completer.check(addr)): the name as the completer spells it.
CompleterName(part) ==
  CASE part = "sys" -> "Sys"
    [] part = "servocount" -> "ServoCount"
    [] OTHER -> part

CompleterCheck(addr) == [i \in 1..Len(addr) |-> CompleterName(addr[i])]

\* fix_addr suffixing every address.
fix_addrAlways(st, addr) ==
  (IF st.completer.st = "loaded" THEN CompleterCheck(addr) ELSE addr) \o <<"a">>

\* gather.fix_addr: the completer's spelling when there is a completer, and
\* '.a' appended unless the address ends with it.
fix_addr(st, addr) ==
  LET named == IF st.completer.st = "loaded" THEN CompleterCheck(addr) ELSE addr
  IN IF endswith_a(named) THEN named ELSE named \o <<"a">>

\* gather after check_comm, on the controller as check_comm left it: every
\* address fixed, Sys.ServoCount.a put first unless it is among them, and the
\* list handed to gather_and_plot. The completer may reject a name.
gatherBody(st, addresses) ==
  LET fixed == [i \in 1..Len(addresses) |-> fix_addr(st, addresses[i])]
      addr == IF ServoCount \in Range(fixed) THEN fixed ELSE <<ServoCount>> \o fixed
      checks == IF st.completer.st = "loaded"
                THEN [i \in 1..Len(addresses) |->
                        Req("completer.check", st.completer.chan, addresses[i], NoVal)]
                ELSE <<>>
  IN WithCompleter(st,
       {Returned(checks \o <<Req("gather_and_plot", st.comm, addr, NoVal)>>, <<"plot">>)}
       \cup {Raised(SubSeq(checks, 1, k), <<>>, "CompleterError") : k \in 1..Len(checks)})

gatherWith(addresses) ==
  /\ CanRun
  /\ CanCheck
  /\ \E ck \in check_comm(core, nhandle) :
       /\ core' = ck.st
       /\ nhandle' = ck.nh
       /\ \E o \in IF ck.ok THEN gatherBody(ck.st, addresses) ELSE {Returned(<<>>, <<>>)} :
            inv' = Record("gather", [addresses |-> addresses],
                          IF ck.ok THEN "true" ELSE "false", o)
       /\ mon' = NoMon
  /\ UNCHANGED <<exported, nctrl, instance>>

gather == gatherWith(<<(<<"Motor[1]", "Pos">>)>>)

servo ==
  Handler("servo", <<>>,
          LAMBDA h : WithCompleter(core,
                       {Returned(<<Req("get_settings", h, <<"Motor">>, NoVal)>>, <<"lines">>)}))

\* servo_copy: refuses to copy a motor onto itself.
servo_copy(from, to) ==
    Handler("servo_copy", [motor_from |-> from, motor_to |-> to],
            LAMBDA h : IF from = to
                       THEN {Returned(<<>>, <<>>)}
                       ELSE WithCompleter(core,
                              {Returned(<<Req("copy_settings", h, <<"Motor", Fmt(from)>>,
                                              <<"Motor", Fmt(to)>>)>>, <<>>)}))

\* search: no check_comm; it tests self.completer against None, prints
\* 'Completer not configured' when it is, and else asks the completer for
\* the variable and searches it. The attribute does not exist on a controller
\* constructed with use_completer_db false.
searchBody(st, variable, text) ==
  IF st.completer.st = "unset" THEN {Raised(<<>>, <<>>, "AttributeError")}
  ELSE IF st.completer.st = "None"
  THEN {Returned(<<>>, <<"Completer not configured">>)}
  ELSE {Returned(<<Req("completer.check", st.completer.chan, variable, NoVal),
                   Req("completer.search", st.completer.chan, variable, text)>>,
                 <<"rows">>)}

search(variable, text) ==
  \E o \in searchBody(core, variable, text) :
    Early("search", [variable |-> variable, text |-> text], o)

\* userphase: after the optional rmmod it calls self.set_variable, which the
\* controller does not define.
userphaseBody(h, unload) ==
  {Raised(IF unload THEN <<Req("shell", h, <<"rmmod">>, NoVal)>> ELSE <<>>,
          <<>>, "AttributeError")}

userphase(unload) ==
    Handler("userphase", [unload |-> unload], LAMBDA h : userphaseBody(h, unload))

\* ------------------------------------------------------------------------ v
\* VarValue taking a value only from 'var=value'.
VarValueIgnoreSecond(first, second) ==
  IF "=" \in Range(first)
  THEN LET parts == Split(first, "=") IN [var |-> parts[1], value |-> Some(parts[2])]
  ELSE [var |-> first, value |-> None]

\* v: the variable and the value, from 'var=value' in the first argument or
\* from the two arguments.
VarValue(first, second) ==
  IF "=" \in Range(first)
  THEN LET parts == Split(first, "=") IN [var |-> parts[1], value |-> Some(parts[2])]
  ELSE [var |-> first, value |-> second]

vBody(h, first, second) ==
  LET vv == VarValue(first, second)
  IN IF vv.value = None
     THEN {Returned(<<Req("get", h, vv.var, NoVal)>>, <<out>>) : out \in {"value", "GPError"}}
     ELSE {Returned(<<Req("set", h, vv.var, vv.value[1])>>, <<out>>)
             : out \in {"value", "GPError"}}

FirstArgs == {<<"P1">>, <<"P1", "=", "5">>, <<"P1", "=">>, <<"P1", "=", "5", "=", "6">>}

SecondArgs == {None, Some(<<"7">>)}

v(first, second) ==
    Handler("v", [variable |-> first, value |-> second],
            LAMBDA h : vBody(h, first, second))

\* --------------------------------------------------------------- enc_filter
EncVar(num, index) == <<"EncTable", Fmt(num), index>>

\* The values written: 0, 0 when cutoff <= 0, else util.tracking_filter's.
FilterValues(cutoff) ==
  IF cutoff <= 0 THEN <<(<<"0">>), (<<"0">>)>> ELSE <<(<<"Ki">>), (<<"Kp">>)>>

\* enc_filter reads the servo_period property (a second check_comm, then a
\* get of Sys.ServoPeriod) and writes index1 and index2 through set_verbose.
enc_filterReqs(h, num, cutoff) ==
  <<Req("get", h, <<"Sys.ServoPeriod">>, NoVal)>>
  \o set_verbose(h, EncVar(num, "index1"), FilterValues(cutoff)[1])
  \o set_verbose(h, EncVar(num, "index2"), FilterValues(cutoff)[2])

Cutoffs == {-1, 0, 100}

enc_filter(num, cutoff) ==
    Handler("enc_filter", [num |-> num, cutoff |-> cutoff],
            LAMBDA h : Runs(enc_filterReqs(h, num, cutoff), <<"index1", "index2">>, "GPError"))

\* --------------------------------------------------------------- util_build
\* --run has nargs='*' and default '': args.run is the empty string when the
\* option is absent, and the list of its arguments when it is given.
ParseRun(given, runargs) == IF given THEN Some(runargs) ELSE Some(<<>>)

\* build_utility: sends the Makefile and the sources, builds, cleans up, and
\* runs the program when the build printed no error and run is not None.
build_utility(h, name, source, run, errored) ==
  <<Req("send_file", h, <<"Makefile">>, NoVal),
    Req("send_file", h, source, NoVal),
    Req("send_line", h, <<"cd">>, NoVal),
    Req("shell", h, <<"make">>, NoVal),
    Req("remove_file", h, source, NoVal),
    Req("remove_file", h, <<"Makefile">>, NoVal)>>
  \o (IF ~errored /\ run # None
      THEN <<Req("exec", h, name, run[1])>>
      ELSE <<>>)

RunArgs == {<<>>, <<"-x">>}

util_build(given, runargs, errored) ==
    /\ ~given => runargs = <<>>
    /\ Handler("util_build", [run_given |-> given, run |-> runargs, errored |-> errored],
               LAMBDA h : {Returned(build_utility(h, <<"prog">>, <<"prog.c">>,
                                                  ParseRun(given, runargs), errored),
                                    <<>>)})

\* --------------------------------------------------------------- tune_range
\* numpy.arange(low, high, step) for a positive step.
Arange(low, high, step) ==
  LET n == IF high > low THEN (high - low + step - 1) \div step ELSE 0
  IN [i \in 1..n |-> low + (i - 1) * step]

\* RangeValues preferring a complete range to --values.
RangeValuesRangeFirst(values, low, high, step) ==
  IF None \notin {low, high, step}
  THEN [src |-> "range", vals |-> IF step[1] = 0 THEN <<>>
                                  ELSE Arange(low[1], high[1], step[1])]
  ELSE IF values # None THEN [src |-> "values", vals |-> values[1]]
       ELSE [src |-> "none", vals |-> <<>>]

\* The values to try: --values when given, else the range when low, high and
\* step are all given, else none.
RangeValues(values, low, high, step) ==
  IF values # None THEN [src |-> "values", vals |-> values[1]]
  ELSE IF None \notin {low, high, step}
       THEN [src |-> "range", vals |-> IF step[1] = 0 THEN <<>>
                                       ELSE Arange(low[1], high[1], step[1])]
       ELSE [src |-> "none", vals |-> <<>>]

FmtAll(seq) == [i \in 1..Len(seq) |-> Fmt(seq[i])]

ValueLists == {None, Some(<<1, 3>>)}
Lows == {None, Some(0)}
Highs == {None, Some(2)}
Steps == {None, Some(0), Some(1)}

\* tune_range: without values it prints a message and returns; numpy refuses
\* a zero step; else custom_tune validates the connection and runs the
\* tunes, and its result is unpacked into (best, rms): custom_tune returns
\* None when the connection is not valid.
tune_range(values, low, high, step) ==
  LET rv == RangeValues(values, low, high, step)
      args == [values |-> values, low |-> low, high |-> high, step |-> step]
  IN IF rv.src = "none"
     THEN Early("tune_range", args,
                Returned(<<>>, <<"Must set either --values or --low/--high/--step">>))
     ELSE IF rv.src = "range" /\ step[1] = 0
     THEN Early("tune_range", args, Raised(<<>>, <<>>, "ZeroDivisionError"))
     ELSE HandlerOr("tune_range", args,
                    LAMBDA h : {Returned(<<Req("tune_range", h, <<"Kp">>, FmtAll(rv.vals))>>,
                                         <<"plot">>)},
                    Raised(<<>>, <<>>, "TypeError"))

\* ------------------------------------------------- reading device variables
\* What a get of a variable brings back: the variable's text, or the text
\* 'Error: ...' that get_var_values makes of a GPError or a TimeoutError.
Vals == {"0", "1", "x"}
Errors == {"Error: timeout"}
Reads == Vals \cup Errors

\* A callback's None.
PyNone == "<None>"

\* int(value): the number a text spells; text that spells none is a ValueError.
IsInt(value) == value \in {"0", "1"}
int(value) == CASE value = "0" -> 0 [] value = "1" -> 1

\* ppmac_const: the status variables of a motor and of a coordinate system,
\* and the normal values that are known.
motor_status == <<"AmpFault", "InPos">>
motor_normal == [AmpFault |-> 0, InPos |-> 1]
coord_status == <<"ErrorStatus", "Csolve">>
coord_normal == [ErrorStatus |-> 0]

StatusNames == Range(motor_status) \cup Range(coord_status)

\* The callback of monitor and of the library functions: none.
NoCallback == [kind |-> "none", normal |-> <<>>, all |-> FALSE, additional |-> <<>>]

\* got_value's dictionary last_values, read with .get(var, None).
NoLast == [n \in StatusNames |-> PyNone]

\* What a poll's answer for a variable is, against its normal value: normal,
\* abnormal, or other (no normal value known, or no integer read).
Class(cbk, var, r) ==
  IF cbk.kind = "none" THEN "other"
  ELSE IF var[Len(var)] \notin DOMAIN cbk.normal \/ ~IsInt(r) THEN "other"
  ELSE IF int(r) = cbk.normal[var[Len(var)]] THEN "normal" ELSE "abnormal"

\* The course of a variable over the polls so far: quiet (normal at every
\* poll), abnormal (at this poll), returned (normal now, abnormal before),
\* other (some answer was no integer).
NextPhase(ph, c) ==
  IF ph = "other" \/ c = "other" THEN "other"
  ELSE IF c = "abnormal" THEN "abnormal"
  ELSE IF ph = "quiet" THEN "quiet" ELSE "returned"

Phases(cbk, vars_, reads, old) ==
  [i \in 1..Len(vars_) |->
     NextPhase(IF old = <<>> THEN "quiet" ELSE old[i], Class(cbk, vars_[i], reads[i]))]

\* got_value that does not remember what it returned.
got_valueForgets(cbk, cb_last, var, value) ==
  LET name == var[Len(var)]
  IN IF cbk.all \/ name \in Range(cbk.additional)
     THEN [raised |-> FALSE, ret |-> value, last |-> cb_last]
     ELSE IF name \in DOMAIN cbk.normal
     THEN IF ~IsInt(value)
          THEN [raised |-> TRUE, ret |-> value, last |-> cb_last]
          ELSE [raised |-> FALSE,
                ret |-> IF int(value) = cbk.normal[name] THEN PyNone ELSE value,
                last |-> cb_last]
     ELSE [raised |-> TRUE, ret |-> value, last |-> cb_last]

\* got_value passing every value.
got_valueAll(cbk, cb_last, var, value) ==
  [raised |-> FALSE, ret |-> value, last |-> cb_last]

\* got_value (mstatus and cstatus): var is the last component of the variable's
\* path. With --all or for an additional field the value passes; a variable
\* with a normal value passes when abnormal, and when normal only if
\* last_values holds a value for it; int() of other text and a variable with
\* no normal value raise.
got_value(cbk, cb_last, var, value) ==
  LET name == var[Len(var)]
  IN IF cbk.all \/ name \in Range(cbk.additional)
     THEN [raised |-> FALSE, ret |-> value,
           last |-> IF name \in StatusNames THEN [cb_last EXCEPT ![name] = value] ELSE cb_last]
     ELSE IF name \in DOMAIN cbk.normal
     THEN IF ~IsInt(value)
          THEN [raised |-> TRUE, ret |-> value, last |-> cb_last]
          ELSE LET ret == IF int(value) = cbk.normal[name]
                          THEN (IF cb_last[name] # PyNone THEN value ELSE PyNone)
                          ELSE value
               IN [raised |-> FALSE, ret |-> ret, last |-> [cb_last EXCEPT ![name] = ret]]
     ELSE [raised |-> TRUE, ret |-> value, last |-> cb_last]

\* get_var_values over the first n variables: a failed get gives its error
\* text; else the callback, if any, replaces the value unless it raises.
RECURSIVE get_var_values(_, _, _, _, _)
get_var_values(cbk, vars_, reads, cb_last, n) ==
  IF n = 0 THEN [values |-> <<>>, last |-> cb_last]
  ELSE LET p == get_var_values(cbk, vars_, reads, cb_last, n - 1)
           r == reads[n]
       IN IF r \in Errors \/ cbk.kind = "none"
          THEN [values |-> Append(p.values, r), last |-> p.last]
          ELSE LET g == got_value(cbk, p.last, vars_[n], r)
               IN [values |-> Append(p.values, IF g.raised THEN r ELSE g.ret),
                   last |-> g.last]

GetReqs(h, vars_) == [i \in 1..Len(vars_) |-> Req("get", h, vars_[i], NoVal)]

\* The lines printed: 'var = value' for the variables in printed.
Lines(printed) == IF printed = {} THEN <<>> ELSE <<"var = value">>

\* print_var_values: one read, and a line for every value that is not None.
print_var_values(h, cbk, vars_, reads) ==
  LET g == get_var_values(cbk, vars_, reads, NoLast, Len(vars_))
      printed == {i \in 1..Len(vars_) : g.values[i] # PyNone}
  IN [reqs |-> GetReqs(h, vars_), out |-> Lines(printed), result |-> "returned", exc |-> "-",
      mon |-> [on |-> FALSE, kind |-> "print", comm |-> h, vars |-> vars_, cbk |-> cbk,
               raw |-> reads, praw |-> <<>>, prev |-> <<>>, last_values |-> g.values, cb_last |-> g.last,
               phase |-> Phases(cbk, vars_, reads, <<>>), pphase |-> <<>>,
               printed |-> printed, polls |-> 0, how |-> "-"]]

\* The comm of a controller other than the one the shell dispatches to.
Foreign == -1

\* monitor_variables, comm: the one given, else PpmacCore.instance.comm.
ResolveComm(given, selfcomm) ==
  IF given # NoComm THEN [exc |-> "-", comm |-> given]
  ELSE IF instance = NoCtrl THEN [exc |-> "AttributeError", comm |-> NoComm]
  ELSE LET c == IF instance = exported THEN selfcomm ELSE Foreign
       IN IF c = NoComm THEN [exc |-> "ValueError", comm |-> NoComm]
          ELSE [exc |-> "-", comm |-> c]

\* monitor_variables up to its loop: the initial read, printed where not None.
monitor_variables(given, selfcomm, cbk, vars_, reads) ==
  LET rc == ResolveComm(given, selfcomm)
      g == get_var_values(cbk, vars_, reads, NoLast, Len(vars_))
      printed == {i \in 1..Len(vars_) : g.values[i] # PyNone}
  IN IF rc.exc # "-" THEN Raised(<<>>, <<>>, rc.exc)
     ELSE Running(GetReqs(rc.comm, vars_), Lines(printed),
                  [on |-> TRUE, kind |-> "monitor", comm |-> rc.comm, vars |-> vars_,
                   cbk |-> cbk, raw |-> reads, praw |-> <<>>, prev |-> <<>>, last_values |-> g.values,
                   phase |-> Phases(cbk, vars_, reads, <<>>), pphase |-> <<>>,
                   cb_last |-> g.last, printed |-> printed, polls |-> 0, how |-> "-"])

\* monitor_poll that keeps the initial values as last_values.
monitor_pollKeepsFirst(answers) ==
  /\ inv.result = "running" /\ mon.on /\ mon.kind = "monitor"
  /\ mon.polls < MaxPolls
  /\ \E reads \in [1..Len(mon.vars) -> answers] :
       LET g == get_var_values(mon.cbk, mon.vars, reads, mon.cb_last, Len(mon.vars))
           old == IF mon.polls = 0 THEN mon.last_values ELSE mon.prev
           printed == {i \in 1..Len(mon.vars) : g.values[i] # PyNone /\ old[i] # g.values[i]}
       IN /\ mon' = [mon EXCEPT !.raw = reads, !.praw = mon.raw, !.prev = mon.last_values,
                                !.phase = Phases(mon.cbk, mon.vars, reads, mon.phase),
                                !.pphase = mon.phase,
                                !.last_values = g.values, !.cb_last = g.last,
                                !.printed = printed, !.polls = @ + 1]
          /\ inv' = [inv EXCEPT !.reqs = @ \o GetReqs(mon.comm, mon.vars),
                                !.out = @ \o Lines(printed)]
  /\ UNCHANGED <<core, exported, nctrl, instance, nhandle>>

\* One iteration of monitor_variables' loop: a read, and a line for every
\* value that is not None and differs from the one before; the values read
\* become last_values.
monitor_poll(answers) ==
  /\ inv.result = "running" /\ mon.on /\ mon.kind = "monitor"
  /\ mon.polls < MaxPolls
  /\ \E reads \in [1..Len(mon.vars) -> answers] :
       LET g == get_var_values(mon.cbk, mon.vars, reads, mon.cb_last, Len(mon.vars))
           printed == {i \in 1..Len(mon.vars) :
                         g.values[i] # PyNone /\ mon.last_values[i] # g.values[i]}
       IN /\ mon' = [mon EXCEPT !.raw = reads, !.praw = mon.raw, !.prev = mon.last_values,
                                !.phase = Phases(mon.cbk, mon.vars, reads, mon.phase),
                                !.pphase = mon.phase,
                                !.last_values = g.values, !.cb_last = g.last,
                                !.printed = printed, !.polls = @ + 1]
          /\ inv' = [inv EXCEPT !.reqs = @ \o GetReqs(mon.comm, mon.vars),
                                !.out = @ \o Lines(printed)]
  /\ UNCHANGED <<core, exported, nctrl, instance, nhandle>>

\* The operator's interrupt ends the loop and the handler.
monitor_interrupt ==
  /\ inv.result = "running" /\ mon.on /\ mon.kind = "monitor"
  /\ mon' = [NoMon EXCEPT !.kind = "monitor", !.polls = mon.polls, !.how = "interrupted"]
  /\ inv' = [inv EXCEPT !.result = "returned"]
  /\ UNCHANGED <<core, exported, nctrl, instance, nhandle>>

\* monitorc: the variables are the attributes the completer lists for base,
\* less those to ignore.
CompleterAttrs == <<"Pos", "Vel">>

CompleterVariables(base, ignore) ==
  LET all == [i \in 1..Len(CompleterAttrs) |-> base \o <<CompleterAttrs[i]>>]
  IN SelectSeq(all, LAMBDA var : var \notin ignore)

\* monitorc after check_comm, on the controller as check_comm left it: the
\* test of self.completer (an attribute that may not exist), the completer's
\* list of variables, the initial read, all printed; then the loop.
monitorcBody(st, base, ignore, reads) ==
  IF st.completer.st = "unset" THEN Raised(<<>>, <<>>, "AttributeError")
  ELSE IF st.completer.st = "None" THEN Returned(<<>>, <<"Completer not enabled">>)
  ELSE LET vars_ == CompleterVariables(base, ignore)
           first == [i \in 1..Len(vars_) |-> reads[i]]
       IN Running(<<Req("completer.check", st.completer.chan, base, NoVal)>>
                    \o GetReqs(st.comm, vars_),
                  <<"Initial values:">> \o Lines(1..Len(vars_)),
                  [on |-> TRUE, kind |-> "monitorc", comm |-> st.comm, vars |-> vars_,
                   cbk |-> NoCallback, raw |-> first, praw |-> <<>>, prev |-> <<>>,
                   phase |-> Phases(NoCallback, vars_, first, <<>>), pphase |-> <<>>,
                   last_values |-> first, cb_last |-> NoLast, printed |-> 1..Len(vars_),
                   polls |-> 0, how |-> "-"])

monitorc(base, ignore, answers) ==
  /\ CanRun
  /\ CanCheck
  /\ \E ck \in check_comm(core, nhandle), reads \in [1..Len(CompleterAttrs) -> answers] :
       /\ core' = ck.st
       /\ nhandle' = ck.nh
       /\ LET o == IF ck.ok THEN monitorcBody(ck.st, base, ignore, reads)
                   ELSE Returned(<<>>, <<>>)
          IN /\ inv' = Record("monitorc", [base |-> base, ignore |-> ignore],
                              IF ck.ok THEN "true" ELSE "false", o)
             /\ mon' = MonOf(o)
  /\ UNCHANGED <<exported, nctrl, instance>>

\* One pass of monitorc's loop: a read, and a line for every value that
\* differs from the one before and is no error text.
monitorc_poll(answers) ==
  /\ inv.result = "running" /\ mon.on /\ mon.kind = "monitorc"
  /\ mon.polls < MaxPolls
  /\ \E reads \in [1..Len(mon.vars) -> answers] :
       LET printed == {i \in 1..Len(mon.vars) :
                         mon.last_values[i] # reads[i] /\ reads[i] \notin Errors}
       IN /\ mon' = [mon EXCEPT !.raw = reads, !.praw = mon.raw, !.prev = mon.last_values,
                                !.phase = Phases(mon.cbk, mon.vars, reads, mon.phase),
                                !.pphase = mon.phase,
                                !.last_values = reads, !.printed = printed,
                                !.polls = @ + 1]
          /\ inv' = [inv EXCEPT !.reqs = @ \o GetReqs(mon.comm, mon.vars),
                                !.out = @ \o Lines(printed)]
  /\ UNCHANGED <<core, exported, nctrl, instance, nhandle>>

\* The operator's interrupt ends monitorc's loop and the handler.
monitorc_interrupt ==
  /\ inv.result = "running" /\ mon.on /\ mon.kind = "monitorc"
  /\ mon' = [NoMon EXCEPT !.kind = "monitorc", !.polls = mon.polls, !.how = "interrupted"]
  /\ inv' = [inv EXCEPT !.result = "returned"]
  /\ UNCHANGED <<core, exported, nctrl, instance, nhandle>>

\* monitor: hands the variables to monitor_variables, and no comm.
monitor(variables, answers) ==
  \E reads \in [1..Len(variables) -> answers] :
    Handler("monitor", [variables |-> variables],
            LAMBDA h : {monitor_variables(NoComm, h, NoCallback, variables, reads)})

\* The variables of mstatus and cstatus: the status variables but the ignored
\* ones, then the additional ones, each under the motor or coordinate system.
Remove(seq, ignore) ==
  LET keep == {i \in 1..Len(seq) : seq[i] \notin ignore}
      F[i \in 0..Len(seq)] ==
        IF i = 0 THEN <<>> ELSE IF i \in keep THEN Append(F[i - 1], seq[i]) ELSE F[i - 1]
  IN F[Len(seq)]

StatusVariables(base, status, ignore, additional) ==
  LET names == Remove(status, ignore) \o additional
  IN [i \in 1..Len(names) |-> <<base, names[i]>>]

\* The body of mstatus and cstatus: monitor_variables with comm=self.comm
\* under --monitor, else print_var_values, both with got_value.
StatusBody(h, base, status, normal, a, reads) ==
  LET cbk == [kind |-> "status", normal |-> normal, all |-> a.all,
              additional |-> a.additional]
      vars_ == StatusVariables(base, status, a.ignore, a.additional)
  IN IF a.monitor
     THEN monitor_variables(h, h, cbk, vars_, reads)
     ELSE print_var_values(h, cbk, vars_, reads)

StatusArgs ==
  {a \in [all : BOOLEAN, monitor : BOOLEAN, additional : {<<>>, <<"Kp">>, <<"AmpFault">>},
          ignore : {{}, {"InPos", "Csolve"}}] :
     /\ a.additional # <<>> => a.ignore # {}
     /\ a.monitor => a.additional = <<>>}

NVars(status, a) == Len(Remove(status, a.ignore)) + Len(a.additional)

mstatus(a, answers) ==
  \E reads \in [1..NVars(motor_status, a) -> answers] :
    Handler("mstatus", a,
            LAMBDA h : {StatusBody(h, "Motor[1]", motor_status, motor_normal, a, reads)})

cstatus(a, answers) ==
  \E reads \in [1..NVars(coord_status, a) -> answers] :
    Handler("cstatus", a,
            LAMBDA h : {StatusBody(h, "Coord[1]", coord_status, coord_normal, a, reads)})

\* ----------------------------------------------------------------- prog_run
\* The variable polled for activity is indexed by the program number; the
\* error status by the coordinate system.
ActiveVar(a) == <<"Coord", Fmt(a.program), "ProgActive">>
ErrorStatusVar(a) == <<"Coord", Fmt(a.coord), "ErrorStatus">>

\* After the loop: ProgActive is read for the 'Done' line, then ErrorStatus.
ProgRunEnd(h, a) ==
  <<Req("get", h, ActiveVar(a), NoVal), Req("get", h, ErrorStatusVar(a), NoVal)>>

ProgMon(h, a, polls, how) ==
  [NoMon EXCEPT !.on = (how = "-"), !.kind = "prog_run", !.comm = h,
                !.vars = a.variables, !.polls = polls, !.how = how]

\* prog_run up to its loop: the start request, whose GPError is printed and
\* ends the handler; then the variables' initial read.
prog_runBody(h, a) ==
  LET start == <<Req("program", h, <<Fmt(a.coord), Fmt(a.program)>>, <<"start">>)>>
      reads == GetReqs(h, a.variables)
  IN {Returned(start, <<"GPError">>) @@ [mon |-> ProgMon(h, a, 0, "start failed")]}
     \cup {Running(start \o reads, <<"Coord Program">>, ProgMon(h, a, 0, "-"))}
     \cup {Raised(start \o SubSeq(reads, 1, k), <<>>, "GPError") : k \in 1..Len(reads)}

prog_run(a) == Handler("prog_run", a, LAMBDA h : prog_runBody(h, a))

InProgRun == inv.result = "running" /\ mon.on /\ mon.kind = "prog_run"

\* The loop's next requests, in order; a request answered by an error ends
\* the handler there: nothing catches it.
ProgStep(reqs, result, polls, how) ==
  /\ \E o \in {[reqs |-> reqs, result |-> result, exc |-> "-"]}
               \cup {[reqs |-> SubSeq(reqs, 1, k), result |-> "raised", exc |-> "GPError"]
                       : k \in 1..Len(reqs)} :
       inv' = [inv EXCEPT !.reqs = @ \o o.reqs, !.result = o.result, !.exc = o.exc]
  /\ mon' = ProgMon(mon.comm, inv.args, polls, how)
  /\ UNCHANGED <<core, exported, nctrl, instance, nhandle>>

ActiveReq == Req("get", mon.comm, ActiveVar(inv.args), NoVal)

\* One pass of the loop while the program is reported active: ProgActive is
\* read, then every variable.
prog_run_poll ==
  /\ InProgRun
  /\ mon.polls < MaxPolls
  /\ ProgStep(<<ActiveReq>> \o GetReqs(mon.comm, mon.vars), "running", mon.polls + 1, "-")

\* The program is reported inactive: the loop ends by itself.
prog_run_complete ==
  /\ InProgRun
  /\ ProgStep(<<ActiveReq>> \o ProgRunEnd(mon.comm, inv.args),
              "returned", mon.polls, "completed")

\* The handler of the interrupt stopping the program without asking.
StopAlways(active) == TRUE

\* Whether the handler of the interrupt stops the program: when it is still
\* reported active.
StopOnInterrupt(active) == active

\* The operator interrupts the loop, after k of a pass's reads: ProgActive is
\* read again and the program is stopped if it is active.
prog_run_interrupt ==
  /\ InProgRun
  /\ \E active \in BOOLEAN, k \in 0..(1 + Len(mon.vars)) :
       LET pass == <<ActiveReq>> \o GetReqs(mon.comm, mon.vars)
           stop == IF StopOnInterrupt(active)
                   THEN <<Req("program", mon.comm,
                              <<Fmt(inv.args.coord), Fmt(inv.args.program)>>, <<"stop">>)>>
                   ELSE <<>>
       IN ProgStep(SubSeq(pass, 1, k) \o <<ActiveReq>> \o stop
                     \o ProgRunEnd(mon.comm, inv.args),
                   "returned", mon.polls,
                   IF active THEN "interrupted active" ELSE "interrupted inactive")

ProgArgs == [coord : 1..2, program : 1..2, variables : {<<>>, <<(<<"P1">>)>>}]

Init ==
  /\ core = NoCore
  /\ exported = NoCtrl
  /\ nctrl = 0
  /\ instance = NoCtrl
  /\ nhandle = 0
  /\ inv = Idle
  /\ mon = NoMon

\* The console: the extension's life cycle and every command, each with one
\* choice of arguments per path through it, on a device that answers "1".
Next ==
  \/ load_ipython_extension
  \/ unload_ipython_extension
  \/ Connect
  \/ gpascii(<<"P1">>)
  \/ get_var(<<"P1">>)
  \/ set_var(<<"P1">>, <<"1">>)
  \/ \E command \in {<<>>, <<"ls">>} : shell_cmd(command)
  \/ motors(1)
  \/ gather_save
  \/ tune_plot
  \/ gather_plot
  \/ gather_config
  \/ pyramid
  \/ ramp
  \/ \E move_type \in MoveTypes : other_trajectory(move_type)
  \/ wpkey(FALSE)
  \/ prog_send(TRUE, FALSE, 0)
  \/ gather
  \/ servo
  \/ \E to \in 1..2 : servo_copy(1, to)
  \/ userphase(TRUE)
  \/ \E second \in SecondArgs : v(<<"P1">>, second)
  \/ enc_filter(1, 0)
  \/ \E given \in BOOLEAN : util_build(given, <<>>, FALSE)
  \/ \E values \in ValueLists, low \in Lows : tune_range(values, low, Some(2), Some(1))
  \/ prog_run([coord |-> 1, program |-> 2, variables |-> <<(<<"P1">>)>>])
  \/ prog_run_poll
  \/ prog_run_complete
  \/ prog_run_interrupt
  \/ monitor(<<(<<"P1">>)>>, {"1"})
  \/ monitor_poll({"1"})
  \/ monitor_interrupt
  \/ \E m \in BOOLEAN :
       mstatus([all |-> FALSE, monitor |-> m, additional |-> <<>>, ignore |-> {"InPos"}],
               {"1"})
  \/ \E m \in BOOLEAN :
       cstatus([all |-> FALSE, monitor |-> m, additional |-> <<>>, ignore |-> {"Csolve"}],
               {"1"})
  \/ search(<<"Motor[1]">>, <<"servo">>)
  \/ monitorc(<<"Motor[1]">>, {}, {"1"})
  \/ monitorc_poll({"1"})
  \/ monitorc_interrupt

Spec == Init /\ [][Next]_vars

\* ------------------------------------------------------ the commands apart
\* The state after load_ipython_extension has constructed a controller, with
\* any configuration.
InitLoaded ==
  /\ \E auto \in BOOLEAN, usedb \in BOOLEAN, loaded \in BOOLEAN :
       core = NewCtrl(auto, usedb, loaded)
  /\ exported = 1
  /\ nctrl = 1
  /\ instance = 1
  /\ nhandle = 0
  /\ inv = [Idle EXCEPT !.cmd = "load", !.self = 1, !.ret = "instance",
                        !.before = [instance |-> NoCtrl, nctrl |-> 0]]
  /\ mon = NoMon

\* v, enc_filter, tune_range, util_build and prog_send with all their arguments.
NextCmd ==
  \/ Connect
  \/ \E first \in FirstArgs, second \in SecondArgs : v(first, second)
  \/ \E num \in 1..2, cutoff \in Cutoffs : enc_filter(num, cutoff)
  \/ \E values \in ValueLists, low \in Lows, high \in Highs, step \in Steps :
       tune_range(values, low, high, step)
  \/ \E given \in BOOLEAN, runargs \in RunArgs, errored \in BOOLEAN :
       util_build(given, runargs, errored)
  \/ \E run \in BOOLEAN, gather_ \in BOOLEAN, nmotors \in 0..1 :
       prog_send(run, gather_, nmotors)

SpecCmd == InitLoaded /\ [][NextCmd]_vars

\* prog_run with all its arguments.
NextProg ==
  \/ Connect
  \/ \E a \in ProgArgs : prog_run(a)
  \/ prog_run_poll
  \/ prog_run_complete
  \/ prog_run_interrupt

SpecProg == InitLoaded /\ [][NextProg]_vars

\* The state after load_ipython_extension with use_completer_db off: the
\* commands that read variables make no use of the completer.
InitNoDb == InitLoaded /\ ~core.use_completer_db

\* monitor, and mstatus and cstatus under --monitor, on a device that answers
\* anything.
MonitorArgs == {<<(<<"P1">>)>>, <<(<<"P1">>), (<<"P2">>)>>}

NextMon ==
  \/ Connect
  \/ \E variables \in MonitorArgs : monitor(variables, Reads)
  \/ monitor_poll(Reads)
  \/ monitor_interrupt
  \/ \E a \in StatusArgs : a.monitor /\ mstatus(a, Reads)
  \/ \E a \in StatusArgs : a.monitor /\ cstatus(a, Reads)

SpecMon == InitNoDb /\ [][NextMon]_vars

\* mstatus and cstatus run once, on a device that answers anything.
NextStatus ==
  \/ Connect
  \/ \E a \in StatusArgs : ~a.monitor /\ mstatus(a, Reads)
  \/ \E a \in StatusArgs : ~a.monitor /\ cstatus(a, Reads)

SpecStatus == InitNoDb /\ [][NextStatus]_vars

\* connect with every kind of argument, under a configuration that changes.
ArgHosts == {<<>>, <<"10.0.0.5">>, <<"">>}
ArgPorts == {<<>>, <<2222>>, <<0>>}
ArgUsers == {<<>>, <<"admin">>}
ArgPasswords == {<<>>, <<"secret">>}
ConnectArgs == [host : ArgHosts, port : ArgPorts, user : ArgUsers, password : ArgPasswords]
ConfigHosts == {DefaultConfig.host, "10.0.0.99"}
ConfigPorts == {DefaultConfig.port, 2200}

NextConn ==
  \/ \E a \in ConnectArgs : ConnectWith(a)
  \/ \E host \in ConfigHosts, port \in ConfigPorts : set_config(host, port)
  \/ get_var(<<"P1">>)

SpecConn == InitLoaded /\ [][NextConn]_vars

\* search and monitorc on every kind of controller.
IgnoreLists == {{}, {<<"Motor[1]", "Vel">>}}

NextCompl ==
  \/ Connect
  \/ \E text \in {<<"servo">>, <<>>} : search(<<"Motor[1]">>, text)
  \/ \E ignore \in IgnoreLists : monitorc(<<"Motor[1]">>, ignore, Reads)
  \/ monitorc_poll(Reads)
  \/ monitorc_interrupt

SpecCompl == InitLoaded /\ [][NextCompl]_vars

\* gather with every list of addresses.
Addrs ==
  {<<"Motor[1]", "Pos">>, <<"Motor[1]", "Pos", "a">>, <<"sys", "servocount">>,
   <<"Sys", "ServoCount", "a">>, <<"a">>}

AddressLists == UNION {[1..n -> Addrs] : n \in 1..MaxAddrs}

NextGather ==
  \/ Connect
  \/ \E addresses \in AddressLists : gatherWith(addresses)

SpecGather == InitLoaded /\ [][NextGather]_vars

\* ================================================================== claims
\* The handlers that talk to the device, and those that validate the connection.
DeviceCmds ==
  {"gpascii", "get_var", "set_var", "v", "shell_cmd", "motors", "gather", "gather_save",
   "gather_config", "tune_plot", "gather_plot", "pyramid", "ramp", "tune_range", "dt_ramp",
   "dt_trapezoid", "dt_scurve", "servo", "servo_copy", "enc_filter", "wpkey", "util_build",
   "userphase", "prog_run", "monitor", "mstatus", "cstatus"}

CheckingCmds == DeviceCmds \cup {"prog_send"}

NotConnected == inv.before.comm = NoComm /\ ~inv.before.auto_connect

\* C1: a device handler issues a request only after check_comm returned true
\* in that invocation, every request goes to self.comm, and with comm None
\* and auto_connect false it issues none.
C1_RequestsOnValidatedComm ==
  inv.cmd \in DeviceCmds =>
    /\ inv.reqs # <<>> => inv.checked = "true"
    /\ \A i \in 1..Len(inv.reqs) : inv.reqs[i].on = core.comm /\ inv.reqs[i].on # NoComm
    /\ NotConnected => inv.reqs = <<>>

\* monitor, which leaves the comm to monitor_variables, has connected by
\* itself and polled on the connection it opened.
C1_Witness ==
  /\ inv.cmd = "monitor" /\ inv.checked = "true"
  /\ inv.before.comm = NoComm
  /\ Len(inv.reqs) >= 2
  /\ \A i \in 1..Len(inv.reqs) : inv.reqs[i].on = core.comm

\* C2: with comm None and auto_connect false every handler that validates the
\* connection returns normally and leaves comm and completer as they were.
C2_NoConnectionReturns ==
  (inv.cmd \in CheckingCmds /\ NotConnected) =>
    /\ inv.result = "returned"
    /\ core.comm = inv.before.comm
    /\ core.completer = inv.before.completer

\* C3: at every poll of monitor_variables after the initial read, the
\* variables printed are those whose value in this poll is not None and
\* differs from their value in the poll before; without a callback the values
\* are the device's answers.
C3_PrintOnChange ==
  (mon.on /\ mon.kind = "monitor" /\ mon.polls >= 1) =>
    /\ mon.printed = {i \in 1..Len(mon.vars) :
                        mon.last_values[i] # PyNone /\ mon.last_values[i] # mon.prev[i]}
    /\ mon.cbk.kind = "none" =>
         mon.printed = {i \in 1..Len(mon.vars) : mon.raw[i] # mon.praw[i]}

\* The monitor command at its second poll: one variable changed and is
\* printed, the other is as it was and is not.
C3_Witness ==
  /\ mon.on /\ mon.kind = "monitor" /\ mon.cbk.kind = "none"
  /\ mon.polls = 2 /\ Len(mon.vars) = 2
  /\ mon.raw[1] # mon.praw[1] /\ mon.raw[2] = mon.praw[2]
  /\ mon.printed = {1}

StatusNormal == IF inv.cmd = "mstatus" THEN motor_normal ELSE coord_normal

\* C4: mstatus or cstatus run once without --all: a status variable with a
\* normal value that is not listed in additional, and whose value was read,
\* is printed exactly when the value is not its normal value.
C4_OnlyAbnormalPrinted ==
  (inv.cmd \in {"mstatus", "cstatus"} /\ mon.kind = "print" /\ ~inv.args.all) =>
    \A i \in 1..Len(mon.vars) :
      LET name == mon.vars[i][2]
      IN (/\ name \in DOMAIN StatusNormal
          /\ name \notin Range(inv.args.additional)
          /\ mon.raw[i] \in Vals)
         => (i \in mon.printed
               <=> ~(IsInt(mon.raw[i]) /\ int(mon.raw[i]) = StatusNormal[name]))

\* mstatus read AmpFault at its normal 0, which is not printed, and InPos at
\* 0, not its normal 1, which is.
C4_Witness ==
  /\ inv.cmd = "mstatus" /\ mon.kind = "print" /\ ~inv.args.all
  /\ inv.args.additional = <<>>
  /\ mon.vars = <<(<<"Motor[1]", "AmpFault">>), (<<"Motor[1]", "InPos">>)>>
  /\ mon.raw = <<"0", "0">>
  /\ mon.printed = {2}

NoEq(s) == "=" \notin Range(s)

\* C5: v issues exactly one request: a set of var with the value when a value
\* is supplied (second argument, or 'var=value'), else a get of var; a
\* GPError is printed and the command returns.
C5_vGetsOrSets ==
  (inv.cmd = "v" /\ inv.checked = "true") =>
    LET first == inv.args.variable
        second == inv.args.value
        supplied == second # None \/ ~NoEq(first)
    IN /\ inv.result = "returned"
       /\ Len(inv.reqs) = 1
       /\ supplied => inv.reqs[1].op = "set"
       /\ ~supplied => inv.reqs[1] = Req("get", core.comm, first, NoVal)
       /\ (NoEq(first) /\ second # None)
            => inv.reqs[1] = Req("set", core.comm, first, second[1])
       /\ \A k \in 1..Len(first) :
            (/\ first[k] = "="
             /\ NoEq(SubSeq(first, 1, k - 1))
             /\ NoEq(SubSeq(first, k + 1, Len(first))))
            => inv.reqs[1] = Req("set", core.comm, SubSeq(first, 1, k - 1),
                                 SubSeq(first, k + 1, Len(first)))

\* v P1=5 set P1 to 5, the device answered with a GPError, and v returned.
C5_Witness ==
  /\ inv.cmd = "v" /\ inv.checked = "true"
  /\ inv.args.variable = <<"P1", "=", "5">>
  /\ inv.reqs = <<Req("set", core.comm, <<"P1">>, <<"5">>)>>
  /\ inv.out = <<"GPError">>
  /\ inv.result = "returned"

\* C6: prog_send, connected, sends the motion program to the device.
C6_ProgSendSends ==
  (inv.cmd = "prog_send" /\ inv.checked = "true") => inv.reqs # <<>>

\* What set_verbose is to issue for a variable: the set, then the get.
SetThenGet(h, var, value) == <<Req("set", h, var, value), Req("get", h, var, NoVal)>>

\* The value enc_filter is to write: 0 when cutoff <= 0, else the filter's
\* term, whatever it is.
EncWritten(k) ==
  IF inv.args.cutoff <= 0 THEN <<"0">>
  ELSE IF k <= Len(inv.reqs) THEN inv.reqs[k].val ELSE NoVal

\* C8 as stated: enc_filter issues exactly four requests: set index1, get
\* index1, set index2, get index2.
C8_FourRequests ==
  (inv.cmd = "enc_filter" /\ inv.checked = "true" /\ inv.result = "returned") =>
    inv.reqs = SetThenGet(core.comm, <<"EncTable", Fmt(inv.args.num), "index1">>, EncWritten(1))
               \o SetThenGet(core.comm, <<"EncTable", Fmt(inv.args.num), "index2">>,
                             EncWritten(3))

EncExpected ==
  <<Req("get", core.comm, <<"Sys.ServoPeriod">>, NoVal)>>
  \o SetThenGet(core.comm, <<"EncTable", Fmt(inv.args.num), "index1">>, EncWritten(2))
  \o SetThenGet(core.comm, <<"EncTable", Fmt(inv.args.num), "index2">>, EncWritten(4))

\* C8 amended: enc_filter reads Sys.ServoPeriod and then issues set index1,
\* get index1, set index2, get index2, each get reading back the variable
\* just written, with 0 written to both when cutoff <= 0: five requests when
\* it returns, and the first ones of these when a request raises.
C8_ServoPeriodThenFour ==
  (inv.cmd = "enc_filter" /\ inv.checked = "true") =>
    /\ inv.result = "returned" => inv.reqs = EncExpected
    /\ inv.result = "raised" =>
         /\ Len(inv.reqs) \in 1..5
         /\ inv.reqs = SubSeq(EncExpected, 1, Len(inv.reqs))

\* enc_filter 2 0 returned after its five requests.
C8_Witness ==
  /\ inv.cmd = "enc_filter" /\ inv.result = "returned" /\ inv.checked = "true"
  /\ inv.args.num = 2 /\ inv.args.cutoff = 0
  /\ Len(inv.reqs) = 5
  /\ inv.reqs[2].val = <<"0">> /\ inv.reqs[4].val = <<"0">>

FullRange == inv.args.low # None /\ inv.args.high # None /\ inv.args.step # None

MustSet == <<"Must set either --values or --low/--high/--step">>

\* C9: tune_range tries --values when given, even with a range; else the
\* range, only when low, high and step are all given; else it prints the
\* message and returns with the connection not validated and nothing
\* requested.
C9_TuneRangeValues ==
  inv.cmd = "tune_range" =>
    /\ (inv.args.values # None /\ inv.reqs # <<>>)
         => inv.reqs[1].val = FmtAll(inv.args.values[1])
    /\ (inv.args.values = None /\ FullRange /\ inv.reqs # <<>>)
         => inv.reqs[1].val = FmtAll(Arange(inv.args.low[1], inv.args.high[1],
                                            inv.args.step[1]))
    /\ (inv.args.values = None /\ ~FullRange)
         => /\ inv.out = MustSet
            /\ inv.result = "returned"
            /\ inv.checked = "notcalled"
            /\ inv.reqs = <<>>
            /\ core = inv.before
    /\ (inv.args.values # None \/ FullRange) => inv.out # MustSet
    /\ (inv.args.values # None) => inv.checked # "notcalled"

\* tune_range with --values and a complete range ran the tunes on the values.
C9_Witness ==
  /\ inv.cmd = "tune_range" /\ inv.checked = "true"
  /\ inv.args.values = Some(<<1, 3>>) /\ FullRange /\ inv.args.step # Some(0)
  /\ inv.reqs = <<Req("tune_range", core.comm, <<"Kp">>, <<"1", "3">>)>>

\* C10: util_build without --run issues no command that runs the built program.
C10_RunOnlyWithRun ==
  (inv.cmd = "util_build" /\ ~inv.args.run_given) =>
    \A i \in 1..Len(inv.reqs) : inv.reqs[i].op # "exec"

IsStart(r) == r.op = "program" /\ r.val = <<"start">>
IsStop(r) == r.op = "program" /\ r.val = <<"stop">>
IsActiveRead(r) == r.op = "get" /\ r.var = <<"Coord", Fmt(inv.args.program), "ProgActive">>
IsErrorStatusRead(r) == r.op = "get" /\ r.var = <<"Coord", Fmt(inv.args.coord), "ErrorStatus">>

Stops == {i \in 1..Len(inv.reqs) : IsStop(inv.reqs[i])}
ErrorStatusReads == {i \in 1..Len(inv.reqs) : IsErrorStatusRead(inv.reqs[i])}

Connected == inv.cmd = "connect" \/ (inv.checked = "true" /\ inv.before.comm = NoComm)
ConnectedWith == IF inv.cmd = "connect" THEN inv.args ELSE NoArgs

\* C11: connect replaces comm by a connection opened just then, whose host,
\* port, user and password are each the argument when it is not None and the
\* value configured at that time otherwise; with use_completer_db the
\* completer held before is gone: it is None, or one opened on the new
\* connection; without it the completer is not touched.
C11_ConnectReplacesComm ==
  Connected =>
    /\ core.comm = nhandle
    /\ core.comm # NoComm /\ core.comm > inv.before.comm
    /\ \A k \in {"host", "port", "user", "password"} :
         core.peer[k] = IF ConnectedWith[k] # <<>> THEN ConnectedWith[k][1]
                        ELSE inv.before.cfg[k]
    /\ core.use_completer_db =>
         core.completer \in {Completer("None", NoComm), Completer("loaded", core.comm)}
    /\ ~core.use_completer_db => core.completer = inv.before.completer

\* A second connect, with an empty host, a port of 0 and no user, under a
\* changed configuration, replaced a connection that had a completer.
C11_Witness ==
  /\ inv.cmd = "connect"
  /\ inv.before.comm # NoComm
  /\ inv.before.completer = Completer("loaded", inv.before.comm)
  /\ inv.args.host = <<"">> /\ inv.args.port = <<0>> /\ inv.args.user = <<>>
  /\ inv.before.cfg.host # DefaultConfig.host
  /\ core.peer.host = "" /\ core.peer.port = 0 /\ core.peer.user = "root"
  /\ core.completer = Completer("loaded", core.comm)

\* C12: on a controller with no completer loaded, search prints 'Completer
\* not configured' and monitorc, once the connection is validated, prints
\* 'Completer not enabled'; both return, raise nothing and query neither the
\* completer nor the device.
C12_NoCompleterMessage ==
  /\ (inv.cmd = "search" /\ inv.before.completer.st # "loaded") =>
       /\ inv.result = "returned"
       /\ inv.out = <<"Completer not configured">>
       /\ inv.reqs = <<>>
  /\ (inv.cmd = "monitorc" /\ inv.checked = "true" /\ core.completer.st # "loaded") =>
       /\ inv.result = "returned"
       /\ inv.out = <<"Completer not enabled">>
       /\ inv.reqs = <<>>

\* C13 as stated: unloading sets PpmacCore.instance to None and returns True.
C13_UnloadReturnsTrue ==
  inv.cmd = "unload" => instance = NoCtrl /\ inv.ret = "True"

\* C13 amended: the registered controller, if any, is the one constructed
\* last, whose handlers are exported. A load while one is registered prints
\* 'PpmacCore already loaded', returns None, registers and constructs
\* nothing; a load while none is registered constructs a fresh controller,
\* not connected, registers it and returns it. An unload leaves none
\* registered; it returns True when one was registered and None otherwise.
C13_OneRegisteredController ==
  /\ instance # NoCtrl => instance = nctrl /\ instance = exported
  /\ exported = nctrl
  /\ inv.cmd = "load" =>
       IF inv.before.instance # NoCtrl
       THEN /\ inv.out = <<"PpmacCore already loaded">>
            /\ inv.ret = "None"
            /\ instance = inv.before.instance
            /\ nctrl = inv.before.nctrl
       ELSE /\ inv.out = <<>>
            /\ inv.ret = "instance"
            /\ nctrl = inv.before.nctrl + 1
            /\ instance = nctrl
            /\ core.comm = NoComm /\ core.peer = NoPeer
  /\ inv.cmd = "unload" =>
       /\ instance = NoCtrl
       /\ nctrl = inv.before.nctrl
       /\ inv.ret = IF inv.before.instance # NoCtrl THEN "True" ELSE "None"

\* A load after an unload registered the second controller.
C13_Witness ==
  /\ inv.cmd = "load" /\ inv.ret = "instance"
  /\ inv.before = [instance |-> NoCtrl, nctrl |-> 1]
  /\ instance = 2 /\ exported = 2

\* C14: mstatus or cstatus under --monitor without --all, for a status
\* variable with a normal value whose answers so far were all integers: while
\* it has been normal at every poll it is not printed; it is printed at the
\* poll where it becomes abnormal after having been normal throughout; at
\* the poll where it is normal again after an abnormal one it is printed; and
\* at a normal poll that follows a normal one it is not printed.
C14_AbnormalAndReturnReported ==
  (mon.on /\ mon.kind = "monitor" /\ mon.cbk.kind = "status" /\ ~mon.cbk.all) =>
    \A i \in 1..Len(mon.vars) :
      (/\ mon.vars[i][2] \in DOMAIN mon.cbk.normal
       /\ mon.vars[i][2] \notin Range(mon.cbk.additional)) =>
        /\ mon.phase[i] = "quiet" => i \notin mon.printed
        /\ (mon.phase[i] = "abnormal" /\ (mon.polls = 0 \/ mon.pphase[i] = "quiet"))
             => i \in mon.printed
        /\ (mon.polls >= 1 /\ mon.phase[i] = "returned" /\ mon.pphase[i] = "abnormal")
             => i \in mon.printed
        /\ (mon.polls >= 1 /\ mon.phase[i] = "returned" /\ mon.pphase[i] = "returned")
             => i \notin mon.printed

\* mstatus --monitor at its second poll: InPos was read as 1, its normal
\* value, then as 0, then as 1 again, which is printed.
C14_Witness ==
  /\ inv.cmd = "mstatus" /\ mon.on /\ mon.kind = "monitor" /\ ~mon.cbk.all
  /\ mon.polls = 2
  /\ mon.vars[2] = <<"Motor[1]", "InPos">>
  /\ mon.praw[2] = "0" /\ mon.raw[2] = "1"
  /\ mon.pphase[2] = "abnormal" /\ mon.phase[2] = "returned"
  /\ 2 \in mon.printed

\* The list gather handed to gather_and_plot, if it did.
Handed == {i \in 1..Len(inv.reqs) : inv.reqs[i].op = "gather_and_plot"}
HandedAddr == inv.reqs[Len(inv.reqs)].var

\* What an address given to gather is to become: spelled by the completer if
\* there is one, with '.a' after it unless it ends with '.a'.
Spelled(addr) ==
  IF core.completer.st = "loaded" THEN CompleterCheck(addr) ELSE addr

IsNormalized(given, got) ==
  \/ endswith_a(Spelled(given)) /\ got = Spelled(given)
  \/ ~endswith_a(Spelled(given)) /\ got = Spelled(given) \o <<"a">>

\* C15: the list gather hands to gather_and_plot holds the user's addresses,
\* normalized, in their order, each ending with '.a' and none suffixed twice;
\* Sys.ServoCount.a is in it, and it is put first exactly when it is not one
\* of the normalized addresses.
C15_GatherAddresses ==
  (inv.cmd = "gather" /\ Handed # {}) =>
    LET user == inv.args.addresses
        off == Len(HandedAddr) - Len(user)
    IN /\ Handed = {Len(inv.reqs)}
       /\ \A i \in 1..Len(HandedAddr) : endswith_a(HandedAddr[i])
       /\ ServoCount \in Range(HandedAddr)
       /\ off \in {0, 1}
       /\ \A i \in 1..Len(user) : IsNormalized(user[i], HandedAddr[i + off])
       /\ off = 1 <=> ServoCount \notin {HandedAddr[i + off] : i \in 1..Len(user)}
       /\ off = 1 => HandedAddr[1] = ServoCount

\* gather Motor[1].Pos.a sys.servocount without a completer: the first
\* address is kept as it is, and Sys.ServoCount.a is put first.
C15_Witness ==
  /\ inv.cmd = "gather" /\ Handed # {}
  /\ core.completer.st = "None"
  /\ inv.args.addresses = <<(<<"Motor[1]", "Pos", "a">>), (<<"sys", "servocount">>)>>
  /\ HandedAddr = <<ServoCount, (<<"Motor[1]", "Pos", "a">>), (<<"sys", "servocount", "a">>)>>
====
